---------------------------- MODULE Spec2Model ----------------------------
(***************************************************************************)
(* Twitter_Sentiment_Analysis.py: get_tweets_and_sentiment and the helper  *)
(* setup_twitter, as a state machine.                                      *)
(*                                                                         *)
(* One run of get_tweets_and_sentiment(hashtags, number_of_tweets) is      *)
(* modelled statement by statement.  The collaborators outside the file    *)
(* (the process environment, tweepy's Cursor, TextBlob, WordCloud) are the *)
(* inputs of the model:                                                    *)
(*   - environ is the set of credential variables that are defined;        *)
(*   - the data source holds, for the tag being processed, `size` tweets;  *)
(*     every Cursor the code creates is a fresh one, so a page request of  *)
(*     n items yields tweets 1 .. min(n, size) of that source;             *)
(*   - a tweet is the sequence of outcomes TextBlob gives for the          *)
(*     sentences of its cleaned text: a polarity (in tenths, -10 .. 10)    *)
(*     or an exception raised while that sentence is segmented or scored.  *)
(* The corpus list `text` is modelled by its length.                       *)
(***************************************************************************)
EXTENDS Integers, Sequences, FiniteSets, TLC

\* line 62: count_per_request = 100 (and the modulus of line 59)
Window == 100

\* Cap on the page requests made for one tag (the while loop of line 61 is
\* unbounded when the source yields nothing that can be analysed).
MaxPages == 4

\* The four variables setup_twitter reads from the environment (lines 34-37)
CredentialKeys ==
    {"TWITTER_API_KEY", "TWITTER_API_SECRET_KEY",
     "TWITTER_ACCESS_TOKEN", "TWITTER_ACCESS_SECRET_TOKEN"}

\* The hashtags argument (built at lines 94-97): two tags, in input order
Hashtags == <<"#a", "#b">>

\* Values of the number_of_tweets argument (line 99: any int the user types)
Targets == {-100, 0, 1, 100, 101, 250}

\* How many tweets matching a tag the data source may hold
SourceSizes == {0, 1, 99, 100, 200}

\* A sentence of a cleaned tweet, as TextBlob treats it (lines 70-71):
\* scoring it either raises or yields a polarity.
Scored(p) == [raises |-> FALSE, polarity |-> p]

Raising == [raises |-> TRUE, polarity |-> 0]

\* What the tweets of a source look like: the tweet at index i of the source
\* is element ((i - 1) % Len) + 1 of one of these patterns.
TweetPatterns ==
    { << <<Scored(5)>> >>,                                    \* all positive
      << <<Scored(-3)>>, <<Scored(0)>>, <<Scored(10)>> >>,    \* mixed polarities
      << <<>>, <<Scored(2)>> >>,                              \* every other cleaned text is blank
      << <<Scored(0)>>, <<Scored(-10)>>, <<Raising>> >>,      \* every third tweet cannot be classified
      << <<Scored(4), Raising>>, <<Scored(-1)>> >>,           \* scoring fails at the second sentence
      << <<Scored(7), Scored(-7)>> >>,                        \* two sentences per tweet
      << <<Raising>> >> }                                     \* no tweet can be classified

Sources == [size : SourceSizes, tweets : TweetPatterns]

NoSource == [size |-> 0, tweets |-> << <<>> >>]

\* The tweet a cursor over source s yields at position i (1-based)
TweetAt(s, i) == s.tweets[((i - 1) % Len(s.tweets)) + 1]

VARIABLES
    environ,            \* the credential variables defined in os.environ
    number_of_tweets,   \* the argument of get_tweets_and_sentiment
    api,                \* "None" or "API" (line 49); "unset" before setup_twitter
    results,            \* the results dictionary (line 52)
    h,                  \* index in Hashtags of the tag of the for loop (0: none yet)
    positive_tweets,
    negative_tweets,
    neutral_tweets,
    analyzed_tweets,
    last_window,
    text,               \* len(text)
    count_per_request,
    page,               \* number of tweets the current Cursor yields
    cursor,             \* number of tweets of the current Cursor already iterated
    source,             \* the data source for the current tag
    word_clouds,        \* the tags whose word cloud file was written (line 84)
    pc,                 \* the statement the run is at
    outcome,            \* how the call ended: "running", "setup_failed", "results", "raised"
    \* history variables (not read by the program)
    requests,           \* the sizes requested for the current tag, in order
    missing,            \* number_of_tweets - analyzed_tweets at the latest request
    exhausted,          \* a page request of the current tag yielded fewer tweets than requested
    yields,             \* the number of tweets each Cursor of the current tag yields, in order
    tag_tally           \* tag_tally[i]: sentences tallied while tag i was processed

vars == <<environ, number_of_tweets, api, results, h, positive_tweets,
          negative_tweets, neutral_tweets, analyzed_tweets, last_window, text,
          count_per_request, page, cursor, source, word_clouds, pc, outcome,
          requests, missing, exhausted, yields, tag_tally>>

program == <<environ, number_of_tweets, api, results, h, positive_tweets,
             negative_tweets, neutral_tweets, analyzed_tweets, last_window,
             text, count_per_request, page, cursor, source, word_clouds>>

history == <<requests, missing, exhausted, yields, tag_tally>>

ZeroTally == [positive |-> 0, negative |-> 0, neutral |-> 0]

EmptyResults == [positive |-> <<>>, negative |-> <<>>, neutral |-> <<>>]

Init ==
    /\ environ \in SUBSET CredentialKeys
    /\ number_of_tweets \in Targets
    /\ api = "unset"
    /\ results = EmptyResults
    /\ h = 0
    /\ positive_tweets = 0
    /\ negative_tweets = 0
    /\ neutral_tweets = 0
    /\ analyzed_tweets = 0
    /\ last_window = 0
    /\ text = 0
    /\ count_per_request = 0
    /\ page = 0
    /\ cursor = 0
    /\ source = NoSource
    /\ word_clouds = <<>>
    /\ pc = "setup"
    /\ outcome = "running"
    /\ requests = <<>>
    /\ missing = 0
    /\ exhausted = FALSE
    /\ yields = <<>>
    /\ tag_tally = [i \in 1..Len(Hashtags) |-> ZeroTally]

Min(a, b) == IF a <= b THEN a ELSE b

\* Lines 72-77: the bucket a scored sentence is counted in
Bucket(t, polarity) ==
    IF polarity > 0 THEN [t EXCEPT !.positive = @ + 1]
    ELSE IF polarity < 0 THEN [t EXCEPT !.negative = @ + 1]
    ELSE [t EXCEPT !.neutral = @ + 1]

\* Lines 70-77: the for loop over the sentences of one tweet, from the tally
\* t; it stops at the first sentence that raises, keeping what was counted.
RECURSIVE ScoreSentences(_, _)
ScoreSentences(sentences, t) ==
    IF sentences = <<>> THEN [tally |-> t, raised |-> FALSE]
    ELSE IF Head(sentences).raises THEN [tally |-> t, raised |-> TRUE]
    ELSE ScoreSentences(Tail(sentences), Bucket(t, Head(sentences).polarity))

\* The three counters of the current tag, as a tally
Counters ==
    [positive |-> positive_tweets, negative |-> negative_tweets,
     neutral |-> neutral_tweets]

\* Line 59
LastWindow(n) == n % Window

\* CountPerRequest with the whole remainder requested at once instead of a window
CountPerRequest_Remainder ==
    IF (number_of_tweets - analyzed_tweets) = last_window
    THEN last_window
    ELSE number_of_tweets - analyzed_tweets

\* Lines 62-64
CountPerRequest ==
    IF (number_of_tweets - analyzed_tweets) = last_window
    THEN last_window
    ELSE Window

\* Lines 31-45: setup_twitter. api stays None when a credential is missing
\* (KeyError at lines 34-37) or creating the session raises (lines 39-41).
SetupTwitter ==
    /\ pc = "setup"
    /\ \E raised \in BOOLEAN :
         api' = IF environ = CredentialKeys /\ ~raised THEN "API" ELSE "None"
    /\ pc' = "check"
    /\ UNCHANGED <<environ, number_of_tweets, results, h, positive_tweets,
                   negative_tweets, neutral_tweets, analyzed_tweets,
                   last_window, text, count_per_request, page, cursor, source,
                   word_clouds, outcome>>
    /\ UNCHANGED history

\* CheckApi without the test of line 50: the run goes on with api = None
CheckApi_NoTest ==
    /\ pc = "check"
    /\ results' = EmptyResults
    /\ pc' = "for"
    /\ UNCHANGED <<environ, number_of_tweets, api, h, positive_tweets,
                   negative_tweets, neutral_tweets, analyzed_tweets,
                   last_window, text, count_per_request, page, cursor, source,
                   word_clouds, outcome>>
    /\ UNCHANGED history

\* Lines 50-52
CheckApi ==
    /\ pc = "check"
    /\ IF api = "None"
       THEN /\ outcome' = "setup_failed"
            /\ pc' = "returned"
            /\ UNCHANGED results
       ELSE /\ results' = EmptyResults
            /\ pc' = "for"
            /\ UNCHANGED outcome
    /\ UNCHANGED <<environ, number_of_tweets, api, h, positive_tweets,
                   negative_tweets, neutral_tweets, analyzed_tweets,
                   last_window, text, count_per_request, page, cursor, source,
                   word_clouds>>
    /\ UNCHANGED history

\* StartTag with lines 55-57 hoisted out of the for loop: the three counters
\* are not reset for the next tag
StartTag_NoReset ==
    /\ pc = "for"
    /\ h < Len(Hashtags)
    /\ h' = h + 1
    /\ analyzed_tweets' = 0
    /\ last_window' = LastWindow(number_of_tweets)
    /\ text' = 0
    /\ source' \in Sources
    /\ requests' = <<>>
    /\ missing' = 0
    /\ exhausted' = FALSE
    /\ yields' = <<>>
    /\ pc' = "while"
    /\ UNCHANGED <<environ, number_of_tweets, api, results, positive_tweets,
                   negative_tweets, neutral_tweets, count_per_request,
                   page, cursor, word_clouds, outcome, tag_tally>>

\* Lines 53-60: the next tag of the for loop; the data source answers for it
StartTag ==
    /\ pc = "for"
    /\ h < Len(Hashtags)
    /\ h' = h + 1
    /\ positive_tweets' = 0
    /\ negative_tweets' = 0
    /\ neutral_tweets' = 0
    /\ analyzed_tweets' = 0
    /\ last_window' = LastWindow(number_of_tweets)
    /\ text' = 0
    /\ source' \in Sources
    /\ requests' = <<>>
    /\ missing' = 0
    /\ exhausted' = FALSE
    /\ yields' = <<>>
    /\ pc' = "while"
    /\ UNCHANGED <<environ, number_of_tweets, api, results, count_per_request,
                   page, cursor, word_clouds, outcome, tag_tally>>

\* Lines 61-65: the loop test holds, the page size is chosen and a fresh
\* Cursor is created for it
RequestPage ==
    /\ pc = "while"
    /\ analyzed_tweets < number_of_tweets
    /\ Len(requests) < MaxPages
    /\ count_per_request' = CountPerRequest
    /\ page' = Min(count_per_request', source.size)
    /\ cursor' = 0
    /\ requests' = Append(requests, count_per_request')
    /\ yields' = Append(yields, page')
    /\ missing' = number_of_tweets - analyzed_tweets
    /\ exhausted' = (exhausted \/ page' < count_per_request')
    /\ pc' = "page"
    /\ UNCHANGED <<environ, number_of_tweets, api, results, h, positive_tweets,
                   negative_tweets, neutral_tweets, analyzed_tweets,
                   last_window, text, source, word_clouds, outcome, tag_tally>>

\* Lines 65-80: the body of the for loop for the next tweet of the Cursor
ProcessItem ==
    /\ pc = "page"
    /\ cursor < page
    /\ LET tweet == TweetAt(source, cursor + 1)
           r == ScoreSentences(tweet, Counters)
           g == ScoreSentences(tweet, tag_tally[h])
       IN /\ text' = text + 1
          /\ positive_tweets' = r.tally.positive
          /\ negative_tweets' = r.tally.negative
          /\ neutral_tweets' = r.tally.neutral
          /\ analyzed_tweets' = IF r.raised THEN analyzed_tweets
                                ELSE analyzed_tweets + 1
          /\ tag_tally' = [tag_tally EXCEPT ![h] = g.tally]
    /\ cursor' = cursor + 1
    /\ UNCHANGED <<environ, number_of_tweets, api, results, h, last_window,
                   count_per_request, page, source, word_clouds, pc, outcome,
                   requests, missing, exhausted, yields>>

\* Line 81: the Cursor is used up, progress is printed
EndPage ==
    /\ pc = "page"
    /\ cursor = page
    /\ pc' = "while"
    /\ UNCHANGED program
    /\ UNCHANGED <<outcome>>
    /\ UNCHANGED history

\* Line 65: the search behind the Cursor raises; the for statement is outside
\* the try block, so the exception leaves get_tweets_and_sentiment
FetchRaises ==
    /\ pc = "page"
    /\ outcome' = "fetch_error"
    /\ pc' = "raised"
    /\ UNCHANGED program
    /\ UNCHANGED history

\* Lines 61, 82: the loop test fails
ExitLoop ==
    /\ pc = "while"
    /\ ~(analyzed_tweets < number_of_tweets)
    /\ pc' = "cloud"
    /\ UNCHANGED program
    /\ UNCHANGED <<outcome>>
    /\ UNCHANGED history

\* Lines 83-88: the word cloud is written and the counts are appended
FinishTag ==
    /\ pc = "cloud"
    /\ word_clouds' = Append(word_clouds, Hashtags[h])
    /\ results' = [positive |-> Append(results.positive, positive_tweets),
                   negative |-> Append(results.negative, negative_tweets),
                   neutral |-> Append(results.neutral, neutral_tweets)]
    /\ pc' = "for"
    /\ UNCHANGED <<environ, number_of_tweets, api, h, positive_tweets,
                   negative_tweets, neutral_tweets, analyzed_tweets,
                   last_window, text, count_per_request, page, cursor, source,
                   outcome>>
    /\ UNCHANGED history

\* Lines 83-84: generating or saving the word cloud raises (WordCloud raises
\* ValueError on a corpus without words); nothing catches it
WordCloudRaises ==
    /\ pc = "cloud"
    /\ outcome' = "render_error"
    /\ pc' = "raised"
    /\ UNCHANGED program
    /\ UNCHANGED history

\* Line 89
ReturnResults ==
    /\ pc = "for"
    /\ h = Len(Hashtags)
    /\ outcome' = "results"
    /\ pc' = "returned"
    /\ UNCHANGED program
    /\ UNCHANGED history

Next ==
    \/ SetupTwitter
    \/ CheckApi
    \/ StartTag
    \/ RequestPage
    \/ ProcessItem
    \/ EndPage
    \/ FetchRaises
    \/ ExitLoop
    \/ FinishTag
    \/ WordCloudRaises
    \/ ReturnResults

Spec == Init /\ [][Next]_vars

-----------------------------------------------------------------------------
\* What the claims speak of

\* positive + negative + neutral of the current tag
Sum == positive_tweets + negative_tweets + neutral_tweets

\* The while loop of the current tag has exited (line 82 is reached)
LoopExited == pc = "cloud" \/ (pc = "for" /\ h >= 1)

\* The current tag is finalized: its counts are appended to results (line 88)
TagFinished == pc = "for" /\ h >= 1

\* Tweet i of the source cannot be classified
Fails(i) == ScoreSentences(TweetAt(source, i), ZeroTally).raised

\* The tweet the next ProcessItem step handles cannot be classified
NextTweetFails == Fails(cursor + 1)

\* How often tweet i of the source has incremented analyzed_tweets for the
\* current tag: once for every Cursor that has iterated it (a Cursor iterates
\* tweets 1 .. cursor of the source), unless it cannot be classified.
Counted(i) ==
    IF Fails(i) THEN 0
    ELSE Cardinality({p \in 1..(Len(yields) - 1) : i <= yields[p]})
         + (IF yields # <<>> /\ i <= cursor THEN 1 ELSE 0)

\* C1: for a target of at least 1, a finished tag has positive + negative +
\* neutral <= number_of_tweets, with equality when no page request of the tag
\* came back short.
C1_SumWithinTarget ==
    (TagFinished /\ number_of_tweets >= 1) =>
        /\ Sum <= number_of_tweets
        /\ (~exhausted => Sum = number_of_tweets)

\* C2: when the while loop of a tag has exited, positive + negative + neutral
\* equals analyzed_tweets, the number of successfully classified items.
C2_SumIsAnalyzed == LoopExited => Sum = analyzed_tweets

\* C3: once a page request of a tag has returned fewer items than requested,
\* the paging loop stops: no further page is requested for that tag.
C3_StopsOnExhaustion ==
    [][exhausted => ~(pc = "while" /\ pc' = "page")]_vars

\* C4: with target 250 and a source holding 200 matching items, the tag
\* requests pages of 100 and 100 and is finalized with
\* positive + negative + neutral <= 200, no source item counted twice.
C4_Scenario250Of200 ==
    (TagFinished /\ number_of_tweets = 250 /\ source.size = 200) =>
        /\ requests = <<100, 100>>
        /\ Sum <= 200
        /\ \A i \in 1..source.size : Counted(i) <= 1

\* C5: an item whose classification fails leaves positive_tweets,
\* negative_tweets, neutral_tweets and analyzed_tweets as they were, and the
\* page goes on with the next item.
C5_FailedItemCountsNothing ==
    [][(ProcessItem /\ NextTweetFails) =>
          /\ UNCHANGED <<positive_tweets, negative_tweets, neutral_tweets,
                         analyzed_tweets>>
          /\ pc' = "page"]_vars

\* C6: an error raised by the data source query while a page is fetched or
\* iterated never leaves get_tweets_and_sentiment.
C6_FetchErrorAbsorbed == ~(pc = "raised" /\ outcome = "fetch_error")

\* C7: when setup_twitter yields no session, the call ends at once with the
\* setup failure: no tag is started, no page requested, no item classified,
\* no word cloud written, no per-tag result produced.
C7_SetupFailureFailsFast ==
    api = "None" =>
        /\ pc \in {"check", "returned"}
        /\ (pc = "returned" => outcome = "setup_failed")
        /\ h = 0
        /\ requests = <<>>
        /\ text = 0
        /\ analyzed_tweets = 0
        /\ Sum = 0
        /\ word_clouds = <<>>
        /\ results = EmptyResults

C7_Witness == api = "None" /\ pc = "returned" /\ outcome = "setup_failed"

\* C8: when the results mapping is returned, each of its three lists has one
\* entry per input tag and entry i is what was tallied for tag i alone.
C8_ResultsPerTagInOrder ==
    outcome = "results" =>
        /\ Len(results.positive) = Len(Hashtags)
        /\ Len(results.negative) = Len(Hashtags)
        /\ Len(results.neutral) = Len(Hashtags)
        /\ \A i \in 1..Len(Hashtags) :
              /\ results.positive[i] = tag_tally[i].positive
              /\ results.negative[i] = tag_tally[i].negative
              /\ results.neutral[i] = tag_tally[i].neutral
        /\ word_clouds = Hashtags

C8_Witness ==
    /\ outcome = "results"
    /\ results.positive[1] > 0
    /\ results.negative[2] > 0
    /\ results.positive[1] # results.positive[2]

\* C9: for a target of at least 1, every page request has size Window or the
\* remainder number_of_tweets % Window, is never of size 0, and never asks
\* for more than the items still missing.
C9_RequestWithinMissing ==
    (pc = "page" /\ number_of_tweets >= 1) =>
        /\ count_per_request \in {Window, number_of_tweets % Window}
        /\ count_per_request >= 1
        /\ count_per_request <= missing

\* The state part of C10 that does not depend on the target: a page adds
\* between 0 and Window to analyzed_tweets, and text holds at least
\* analyzed_tweets entries.
C10_PageAndCorpus ==
    /\ text >= analyzed_tweets
    /\ (requests # <<>> =>
          /\ analyzed_tweets >= number_of_tweets - missing
          /\ analyzed_tweets - (number_of_tweets - missing) <= Window)

\* Within a tag analyzed_tweets never decreases
C10_Monotone == [][h' = h => analyzed_tweets' >= analyzed_tweets]_vars

\* C10 as stated: analyzed_tweets never decreases within a tag, grows by at
\* most Window per page, text holds at least analyzed_tweets entries, and at
\* loop exit number_of_tweets <= analyzed_tweets < number_of_tweets + Window.
C10_ExitWindow ==
    /\ C10_Monotone
    /\ [](/\ C10_PageAndCorpus
          /\ (LoopExited =>
                /\ number_of_tweets <= analyzed_tweets
                /\ analyzed_tweets < number_of_tweets + Window))

\* C10 (amended): as stated, the upper bound at loop exit only for a target
\* above -Window; at loop exit number_of_tweets <= analyzed_tweets always.
C10_ExitWindowAboveMinusWindow ==
    /\ C10_Monotone
    /\ [](/\ C10_PageAndCorpus
          /\ (LoopExited =>
                /\ number_of_tweets <= analyzed_tweets
                /\ (number_of_tweets > -Window =>
                      analyzed_tweets < number_of_tweets + Window)))

C10_Witness ==
    /\ pc = "cloud"
    /\ analyzed_tweets > number_of_tweets
    /\ text > analyzed_tweets
    /\ Len(requests) >= 2

=============================================================================
